---- MODULE Spec2Model ----
(***************************************************************************)
(* Model of app.py (MLB 2025 tracker): the Statcast event-log filter       *)
(* (fetch_hr_log / fetch_k_log), the counterparty name lookup (pid2name),  *)
(* the news validity predicate and de-duplication loop, and the news       *)
(* timestamp formatting.                                                   *)
(*                                                                         *)
(* Dates are pandas Timestamps at midnight; they are modelled by the       *)
(* order-preserving key year*10000 + month*100 + day.  Text is modelled by *)
(* TLA+ strings, read character by character with SubSeq.                  *)
(***************************************************************************)
EXTENDS Integers, Sequences, FiniteSets, TLC

VARIABLES
    pc,          \* position of the event-log part: "idle", "done", "refiltered"
    df,          \* rows returned by statcast_batter / statcast_pitcher
    start,       \* start date handed to the query
    end,         \* end date handed to the query
    team_abbr,   \* team of the selected player
    target,      \* 'home_run' (fetch_hr_log) or 'strikeout' (fetch_k_log)
    log,         \* the frame returned by fetch_hr_log / fetch_k_log
    log2,        \* the frame obtained by filtering log once more
    npc,         \* position of the news part: "idle", "loop", "done"
    news_list,   \* the articles returned by fetch_mlb_news_rss
    idx,         \* number of articles the for loop has taken from news_list
    filtered,    \* the accepted articles
    seen,        \* links of the accepted articles
    checked,     \* the calls of is_valid_news made so far: <<article, result>>
    rpc,         \* position of one name resolution: "idle", "lookup", "index",
                 \* "except", "done", "raised"
    cell,        \* the counterparty cell the lambda is applied to
    table,       \* the frame returned by playerid_reverse_lookup
    exc,         \* the exception raised inside the try block, "none" if none
    lookups,     \* number of calls of playerid_reverse_lookup
    name,        \* the value stored in the 'Pitcher' / 'Batter' column
    tpc,         \* position of one timestamp formatting: "idle", "parse",
                 \* "localize", "convert", "strftime", "except", "done", "raised"
    pub,         \* the raw 'published' text of the article
    parsed,      \* what pd.to_datetime(pub) returned, kind "pending" before
    ts,          \* the Timestamp being localized, converted and formatted
    terr,        \* the exception raised inside the try block, "none" if none
    pub_fmt,     \* the text shown next to the article
    spc,         \* position of one run of the script: "idle", "sidebar",
                 \* "selected", "fetched", "done", "error"
    tracker,     \* the tracker chosen with the sidebar radio
    ns,          \* the names this run has bound so far, with their values
    logs,        \* the logs dict: player name -> number of rows of the log
    merged,      \* the label column of the head-to-head frame
    domain,      \* the colour domain of the head-to-head chart
    rerr         \* the exception that ended the run, "none" if none

logVars == <<pc, df, start, end, team_abbr, target, log, log2>>

newsVars == <<npc, news_list, idx, filtered, seen, checked>>

nameVars == <<rpc, cell, table, exc, lookups, name>>

timeVars == <<tpc, pub, parsed, ts, terr, pub_fmt>>

runVars == <<spc, tracker, ns, logs, merged, domain, rerr>>

(***************************************************************************)
(* Season settings                                                         *)
(***************************************************************************)
TOKYO_START == 20250318
TOKYO_2 == 20250319
REGULAR_START == 20250327

\* A cell of the 'pitcher' / 'batter' column holds an id, <<id>>, or is
\* missing (NaN), <<>>.
NaN == <<>>

\* pd.notna(x)
notna(x) == Len(x) > 0

(***************************************************************************)
(* Bounds and input universes                                              *)
(***************************************************************************)
MaxEvents == 3

GameDates == {<<2025, 3, 19>>, <<2025, 3, 25>>, <<2025, 3, 27>>, <<2025, 3, 28>>}
EventTypes == {"home_run", "strikeout"}
Opponents == {NaN, <<605141>>}
Teams == {"LAD", "CHC", "NYY"}
Ranges == {<<20250318, 20250328>>, <<20250327, 20250327>>}

\* Rows the query can return: every date and event type with a known
\* counterparty, and on 03-28 also rows whose counterparty id is missing.
RawRows ==
    {r \in [game_date : GameDates, events : EventTypes, opponent : Opponents] :
        notna(r.opponent) \/ r.game_date = <<2025, 3, 28>>}

SeqsUpTo(S, n) == UNION {[1..k -> S] : k \in 0..n}

(***************************************************************************)
(* Small text helpers                                                      *)
(***************************************************************************)
Digit(n) == SubSeq("0123456789", n + 1, n + 1)

RECURSIVE NatToStr(_)
NatToStr(n) == IF n < 10 THEN Digit(n) ELSE NatToStr(n \div 10) \o Digit(n % 10)

\* str(p) for an integer id
str(p) == IF p < 0 THEN "-" \o NatToStr(0 - p) ELSE NatToStr(p)

\* zero-padded two-digit field of strftime (%m, %d, %H, %M)
Pad2(n) == Digit((n \div 10) % 10) \o Digit(n % 10)

(***************************************************************************)
(* fetch_hr_log / fetch_k_log                                              *)
(***************************************************************************)
\* pd.to_datetime(df['game_date'])
to_datetime(g) == g[1] * 10000 + g[2] * 100 + g[3]

\* df['Date'].dt.strftime('%m-%d')
strftime_md(d) == Pad2((d \div 100) % 100) \o "-" \o Pad2(d % 100)

tokyo_days == {TOKYO_START, TOKYO_2}

\* the mask without its overseas-opener branch
maskRegularOnly(d, team) == d >= REGULAR_START

\* the mask with the overseas dates granted to every team
maskAnyTeam(d, team) == d \in tokyo_days \/ d >= REGULAR_START

\* the date mask of one row
mask(d, team) ==
    IF team \in {"LAD", "CHC"}
    THEN d \in tokyo_days \/ d >= REGULAR_START
    ELSE d >= REGULAR_START

\* df.loc[mask] followed by df[df['events'] == tgt]: rows kept, in frame order
Selected(rows, team, tgt) ==
    SelectSeq(rows, LAMBDA r : mask(to_datetime(r.game_date), team) /\ r.events = tgt)

Perms(n) == {p \in [1..n -> 1..n] : \A i, j \in 1..n : i # j => p[i] # p[j]}

\* .sort_values('Date'): pandas sorts with kind='quicksort' unless told
\* otherwise, which orders the keys but promises nothing about the relative
\* order of rows with equal keys.  Every date-ordered arrangement of the rows
\* is a possible result.
sort_values(rows) ==
    LET n == Len(rows)
    IN  {[i \in 1..n |-> rows[p[i]]] : p \in
            {q \in Perms(n) : \A i, j \in 1..n :
                i < j => to_datetime(rows[q[i]].game_date)
                           <= to_datetime(rows[q[j]].game_date)}}

\* a frame of playerid_reverse_lookup: its columns and its rows; a cell holds
\* a text, <<text>>, or nothing, <<>>
NameTable(first, last) ==
    [columns |-> {"name_first", "name_last"},
     rows |-> <<[name_first |-> first, name_last |-> last]>>]

EmptyTable == [columns |-> {"name_first", "name_last"}, rows |-> <<>>]

\* a missing name in a row (None / NaN)
None == <<>>

Text(t) == <<t>>

\* the exception t['name_first'][0] + ' ' + t['name_last'][0] raises on the
\* frame t, "none" when it evaluates
IndexError(t) ==
    IF ~({"name_first", "name_last"} \subseteq t.columns) THEN "KeyError"
    ELSE IF Len(t.rows) = 0 THEN "KeyError"
    ELSE IF t.rows[1].name_first = None \/ t.rows[1].name_last = None THEN "TypeError"
    ELSE "none"

\* t['name_first'][0] + ' ' + t['name_last'][0]
FullName(t) == t.rows[1].name_first[1] \o " " \o t.rows[1].name_last[1]

\* the handler returning nothing useful
EmptyOnError(p) == ""

\* except Exception: return str(p)
OnError(p) == str(p)

\* the external directory behind playerid_reverse_lookup, as seen by the log
Directory(p) == IF p = 605141 THEN NameTable(Text("aaron"), Text("nola")) ELSE EmptyTable

\* lambda x: pid2name(x) if pd.notna(x) else '' as used while the log is built
LogName(x) ==
    IF ~notna(x) THEN ""
    ELSE IF IndexError(Directory(x[1])) = "none"
         THEN FullName(Directory(x[1]))
         ELSE OnError(x[1])

\* the numbering without the "+ 1"
SeqNoFromIndex(i) == i - 1

\* df['HR No'] = df.index + 1 after reset_index(drop=True); i is the 1-based
\* position of the row, df.index its 0-based label
SeqNo(i) == (i - 1) + 1

\* the columns added to the sorted frame
Annotate(rows) ==
    [i \in 1..Len(rows) |->
        [game_date |-> rows[i].game_date,
         events    |-> rows[i].events,
         opponent  |-> rows[i].opponent,
         Date      |-> to_datetime(rows[i].game_date),
         No        |-> SeqNo(i),
         MM_DD     |-> strftime_md(to_datetime(rows[i].game_date)),
         Name      |-> LogName(rows[i].opponent)]]

\* the frames the function body can return for the frame `rows`
FilterResults(rows, team, tgt) ==
    IF Len(rows) = 0 THEN {rows}
    ELSE {Annotate(s) : s \in sort_values(Selected(rows, team, tgt))}

Fetch(tgt) ==
    /\ pc = "idle"
    /\ \E d \in SeqsUpTo(RawRows, MaxEvents), rg \in Ranges, t \in Teams :
          /\ df' = d
          /\ start' = rg[1]
          /\ end' = rg[2]
          /\ team_abbr' = t
          /\ \E res \in FilterResults(d, t, tgt) : log' = res
    /\ target' = tgt
    /\ pc' = "done"
    /\ UNCHANGED <<log2, newsVars, nameVars, timeVars, runVars>>

fetch_hr_log == Fetch("home_run")

fetch_k_log == Fetch("strikeout")

\* the same filter applied to the frame it returned, with the same parameters
Refilter ==
    /\ pc = "done"
    /\ \E res \in FilterResults(log, team_abbr, target) : log2' = res
    /\ pc' = "refiltered"
    /\ UNCHANGED <<df, start, end, team_abbr, target, log, newsVars, nameVars, timeVars, runVars>>

(***************************************************************************)
(* News: is_valid_news and the sidebar loop                                *)
(***************************************************************************)
MaxArticles == 4

\* articles the feed can hold
NewsUniverse ==
    {[title |-> "Fan Vote: All-Star Game", summary |-> "", link |-> "a"],
     [title |-> "Fan Vote: All-Star Game", summary |-> "Recap", link |-> "b"],
     [title |-> "Recap", summary |-> "", link |-> "a"],
     [title |-> "Recap", summary |-> "Final", link |-> "b"],
     [title |-> "Final", summary |-> "", link |-> "c"],
     [title |-> "Final", summary |-> "Recap", link |-> "a"],
     [title |-> "Trade", summary |-> "Recap", link |-> "d"],
     [title |-> "", summary |-> " ", link |-> "c"],
     [title |-> "Check", summary |-> "BACK", link |-> "d"]}

Upper == "ABCDEFGHIJKLMNOPQRSTUVWXYZ"
Lower == "abcdefghijklmnopqrstuvwxyz"

\* position of the one-character string c in s, 0 when absent
IndexOf(c, s) ==
    LET hits == {i \in 1..Len(s) : SubSeq(s, i, i) = c}
    IN  IF hits = {} THEN 0 ELSE CHOOSE i \in hits : \A j \in hits : i <= j

RECURSIVE lower(_)
\* str.lower()
lower(s) ==
    IF Len(s) = 0 THEN ""
    ELSE LET c == SubSeq(s, 1, 1)
             k == IndexOf(c, Upper)
         IN  (IF k = 0 THEN c ELSE SubSeq(Lower, k, k)) \o lower(SubSeq(s, 2, Len(s)))

\* kw in content
contains(kw, content) ==
    \E i \in 1..(Len(content) - Len(kw) + 1) : SubSeq(content, i, i + Len(kw) - 1) = kw

Whitespace == {" "}

RECURSIVE lstrip(_)
lstrip(s) ==
    IF Len(s) > 0 /\ SubSeq(s, 1, 1) \in Whitespace THEN lstrip(SubSeq(s, 2, Len(s))) ELSE s

RECURSIVE rstrip(_)
rstrip(s) ==
    IF Len(s) > 0 /\ SubSeq(s, Len(s), Len(s)) \in Whitespace
    THEN rstrip(SubSeq(s, 1, Len(s) - 1)) ELSE s

\* str.strip()
strip(s) == rstrip(lstrip(s))

teaser_keywords == {"vote", "voting", "check back", "countdown", "announcement"}

\* is_valid_news comparing the text as written, without .lower()
is_valid_news_cased(article) ==
    LET content == article.title \o " " \o article.summary
    IN  IF \E kw \in teaser_keywords : contains(kw, content) THEN FALSE
        ELSE IF Len(strip(article.summary)) = 0 /\ Len(strip(article.title)) = 0 THEN FALSE
        ELSE TRUE

is_valid_news(article) ==
    LET content == lower(article.title \o " " \o article.summary)
    IN  IF \E kw \in teaser_keywords : contains(kw, content) THEN FALSE
        ELSE IF Len(strip(article.summary)) = 0 /\ Len(strip(article.title)) = 0 THEN FALSE
        ELSE TRUE

\* is_valid_news tabulated over the articles of the feed
Verdict == [a \in NewsUniverse |-> is_valid_news(a)]

\* the de-duplication test without the look into seen
NotSeenAlways(link, s) == TRUE

\* a['link'] not in seen
NotSeen(link, s) == link \notin s

\* the break test passing the limit by one
LimitReachedLate(f) == Len(f) > 3

\* len(filtered) >= 3
LimitReached(f) == Len(f) >= 3

\* news_list = fetch_mlb_news_rss(); filtered = []; seen = set()
fetch_mlb_news_rss ==
    /\ npc = "idle"
    /\ \E l \in SeqsUpTo(NewsUniverse, MaxArticles) : news_list' = l
    /\ idx' = 0
    /\ filtered' = <<>>
    /\ seen' = {}
    /\ checked' = <<>>
    /\ npc' = "loop"
    /\ UNCHANGED <<logVars, nameVars, timeVars, runVars>>

\* one pass of the loop body for the next article
LoopBody ==
    /\ npc = "loop"
    /\ idx < Len(news_list)
    /\ LET a == news_list[idx + 1]
           ok == Verdict[a]
       IN  /\ idx' = idx + 1
           /\ checked' = Append(checked, <<a, ok>>)
           /\ IF ~ok
              THEN \* continue
                   UNCHANGED <<filtered, seen, npc>>
              ELSE LET f == IF NotSeen(a.link, seen) THEN Append(filtered, a) ELSE filtered
                       sn == IF NotSeen(a.link, seen) THEN seen \cup {a.link} ELSE seen
                   IN  /\ filtered' = f
                       /\ seen' = sn
                       /\ npc' = IF LimitReached(f) THEN "done" ELSE "loop"
    /\ UNCHANGED <<news_list, logVars, nameVars, timeVars, runVars>>

\* the loop ends when news_list is used up
LoopEnd ==
    /\ npc = "loop"
    /\ idx = Len(news_list)
    /\ npc' = "done"
    /\ UNCHANGED <<news_list, idx, filtered, seen, checked, logVars, nameVars, timeVars, runVars>>

NextNews ==
    \/ fetch_mlb_news_rss
    \/ LoopBody
    \/ LoopEnd

(***************************************************************************)
(* Name resolution: the lambda and pid2name, one statement at a time       *)
(***************************************************************************)
Cells == {NaN, <<605141>>, <<660271>>, <<592450>>, <<12>>, <<0>>, <<-1>>, <<-4077>>}

\* what playerid_reverse_lookup can answer: a frame (a hit, no row for an
\* unknown id, a frame without the name columns, a row without a name) or an
\* exception
LookupAnswers ==
    {[raises |-> "none", frame |-> NameTable(Text("aaron"), Text("nola"))],
     [raises |-> "none", frame |-> NameTable(Text("shohei"), Text("ohtani"))],
     [raises |-> "none", frame |-> EmptyTable],
     [raises |-> "none", frame |-> [columns |-> {"key_mlbam"}, rows |-> <<>>]],
     [raises |-> "none", frame |-> NameTable(None, Text("nola"))],
     [raises |-> "ConnectionError", frame |-> EmptyTable],
     [raises |-> "ValueError", frame |-> EmptyTable]}

\* a handler for the missing key only
CaughtKeyErrorOnly(e) == e = "KeyError"

\* except Exception: every exception of the try block is an Exception
Caught(e) == e \in {"KeyError", "TypeError", "ConnectionError", "ValueError"}

\* lambda x: pid2name(x) if pd.notna(x) else ''
apply_lambda ==
    /\ rpc = "idle"
    /\ \E x \in Cells :
          /\ cell' = x
          /\ IF notna(x)
             THEN rpc' = "lookup" /\ UNCHANGED name
             ELSE rpc' = "done" /\ name' = ""
    /\ UNCHANGED <<table, exc, lookups, logVars, newsVars, timeVars, runVars>>

\* t = playerid_reverse_lookup([p], key_type='mlbam')
reverse_lookup ==
    /\ rpc = "lookup"
    /\ lookups' = lookups + 1
    /\ \E a \in LookupAnswers :
          IF a.raises = "none"
          THEN table' = a.frame /\ rpc' = "index" /\ UNCHANGED exc
          ELSE exc' = a.raises /\ rpc' = "except" /\ UNCHANGED table
    /\ UNCHANGED <<cell, name, logVars, newsVars, timeVars, runVars>>

\* return t['name_first'][0] + ' ' + t['name_last'][0]
index_names ==
    /\ rpc = "index"
    /\ IF IndexError(table) = "none"
       THEN name' = FullName(table) /\ rpc' = "done" /\ UNCHANGED exc
       ELSE exc' = IndexError(table) /\ rpc' = "except" /\ UNCHANGED name
    /\ UNCHANGED <<cell, table, lookups, logVars, newsVars, timeVars, runVars>>

\* except Exception: return str(p)
handle_exception ==
    /\ rpc = "except"
    /\ IF Caught(exc)
       THEN name' = OnError(cell[1]) /\ rpc' = "done"
       ELSE rpc' = "raised" /\ UNCHANGED name
    /\ UNCHANGED <<cell, table, exc, lookups, logVars, newsVars, timeVars, runVars>>

NextName ==
    \/ apply_lambda
    \/ reverse_lookup
    \/ index_names
    \/ handle_exception

(***************************************************************************)
(* News timestamp formatting                                               *)
(***************************************************************************)
PubTexts ==
    {"Tue, 02 Jul 2024 00:13:30 GMT", "Tue, 02 Jul 2024 00:13:30", "2024-07-02 00:13:30",
     "Mon, 15 Jan 2024 12:00:00 GMT", "Mon, 15 Jan 2024 12:00:00", "2024-01-15 12:00:00",
     "Sun, 10 Mar 2024 06:59:59 GMT", "Sun, 10 Mar 2024 06:59:59", "2024-03-10 06:59:59",
     "Sun, 10 Mar 2024 07:00:00 GMT", "Sun, 10 Mar 2024 07:00:00", "2024-03-10 07:00:00",
     "Sun, 03 Nov 2024 05:59:00 GMT", "Sun, 03 Nov 2024 05:59:00", "2024-11-03 05:59:00",
     "Sun, 03 Nov 2024 06:00:00 GMT", "Sun, 03 Nov 2024 06:00:00", "2024-11-03 06:00:00",
     "Wed, 01 Jan 2025 03:30:00 GMT", "Wed, 01 Jan 2025 03:30:00", "2025-01-01 03:30:00",
     "Sat, 01 Mar 2025 02:00:00 GMT", "Sat, 01 Mar 2025 02:00:00", "2025-03-01 02:00:00",
     "Fri, 01 Mar 2024 04:00:00 GMT", "Fri, 01 Mar 2024 04:00:00", "2024-03-01 04:00:00",
     "Tue, 02 Jul 2024 25:13:30 GMT", "sometime last week, probably", "not-a-date", ""}

\* the number written by the digits of s, -1 when s is not all digits
RECURSIVE Num(_)
Num(s) ==
    IF Len(s) = 0 THEN 0
    ELSE LET h == Num(SubSeq(s, 1, Len(s) - 1))
             d == IndexOf(SubSeq(s, Len(s), Len(s)), "0123456789")
         IN  IF h < 0 \/ d = 0 THEN -1 ELSE h * 10 + (d - 1)

MonthNames == "JanFebMarAprMayJunJulAugSepOctNovDec"

\* month number of a three-letter month name, 0 when it is none
MonthOf(n) ==
    LET hits == {k \in 1..12 : SubSeq(MonthNames, 3 * k - 2, 3 * k) = n}
    IN  IF hits = {} THEN 0 ELSE CHOOSE k \in hits : TRUE

DayNames == {"Mon", "Tue", "Wed", "Thu", "Fri", "Sat", "Sun"}

IsLeap(y) == (y % 4 = 0 /\ y % 100 # 0) \/ y % 400 = 0

DaysIn(y, m) ==
    IF m = 2 THEN (IF IsLeap(y) THEN 29 ELSE 28)
    ELSE IF m \in {4, 6, 9, 11} THEN 30 ELSE 31

\* the fields make a date and a time of day
ValidFields(y, m, d, H, M, S) ==
    /\ y >= 1 /\ m \in 1..12
    /\ d >= 1 /\ d <= DaysIn(y, m)
    /\ H \in 0..23 /\ M \in 0..59 /\ S \in 0..59

Stamp(kind, y, m, d, H, M) == [kind |-> kind, y |-> y, m |-> m, d |-> d, H |-> H, M |-> M]

NoStamp(kind) == Stamp(kind, 0, 0, 0, 0, 0)

\* "HH:MM:SS" at position i of s
ClockAt(s, i) ==
    /\ SubSeq(s, i + 2, i + 2) = ":"
    /\ SubSeq(s, i + 5, i + 5) = ":"

\* "Tue, 02 Jul 2024 00:13:30", followed by " GMT" or by nothing
ParseRfc(s) ==
    LET d == Num(SubSeq(s, 6, 7))
        m == MonthOf(SubSeq(s, 9, 11))
        y == Num(SubSeq(s, 13, 16))
        H == Num(SubSeq(s, 18, 19))
        M == Num(SubSeq(s, 21, 22))
        S == Num(SubSeq(s, 24, 25))
        shape == /\ SubSeq(s, 1, 3) \in DayNames
                 /\ SubSeq(s, 4, 5) = ", "
                 /\ SubSeq(s, 8, 8) = " "
                 /\ SubSeq(s, 12, 12) = " "
                 /\ SubSeq(s, 17, 17) = " "
                 /\ ClockAt(s, 18)
                 /\ Len(s) = 29 => SubSeq(s, 26, 29) = " GMT"
    IN  IF shape /\ ValidFields(y, m, d, H, M, S)
        THEN Stamp(IF Len(s) = 29 THEN "aware" ELSE "naive", y, m, d, H, M)
        ELSE NoStamp("error")

\* "2024-07-02 00:13:30"
ParseIso(s) ==
    LET y == Num(SubSeq(s, 1, 4))
        m == Num(SubSeq(s, 6, 7))
        d == Num(SubSeq(s, 9, 10))
        H == Num(SubSeq(s, 12, 13))
        M == Num(SubSeq(s, 15, 16))
        S == Num(SubSeq(s, 18, 19))
        shape == /\ SubSeq(s, 5, 5) = "-"
                 /\ SubSeq(s, 8, 8) = "-"
                 /\ SubSeq(s, 11, 11) = " "
                 /\ ClockAt(s, 12)
    IN  IF shape /\ ValidFields(y, m, d, H, M, S)
        THEN Stamp("naive", y, m, d, H, M)
        ELSE NoStamp("error")

\* pd.to_datetime(pub) on the forms of PubTexts: a zone-aware Timestamp for
\* a text that names its zone, a naive one for a text that names none, NaT
\* for the empty text, an exception (kind "error") for any other text
parse_datetime(s) ==
    IF Len(s) = 0 THEN NoStamp("NaT")
    ELSE IF Len(s) \in {25, 29} THEN ParseRfc(s)
    ELSE IF Len(s) = 19 THEN ParseIso(s)
    ELSE NoStamp("error")

\* days from 1970-01-01 to the date y-m-d
DaysFromCivil(y, m, d) ==
    LET yy  == IF m <= 2 THEN y - 1 ELSE y
        era == yy \div 400
        yoe == yy - era * 400
        mp  == (m + 9) % 12
        doy == ((153 * mp + 2) \div 5) + d - 1
        doe == yoe * 365 + (yoe \div 4) - (yoe \div 100) + doy
    IN  era * 146097 + doe - 719468

\* the date that lies z days after 1970-01-01, as <<y, m, d>>
CivilFromDays(z) ==
    LET zz  == z + 719468
        era == zz \div 146097
        doe == zz - era * 146097
        yoe == (doe - (doe \div 1460) + (doe \div 36524) - (doe \div 146096)) \div 365
        doy == doe - (365 * yoe + (yoe \div 4) - (yoe \div 100))
        mp  == (5 * doy + 2) \div 153
        d   == doy - ((153 * mp + 2) \div 5) + 1
        m   == IF mp < 10 THEN mp + 3 ELSE mp - 9
        y   == yoe + era * 400
    IN  <<IF m <= 2 THEN y + 1 ELSE y, m, d>>

\* day of the week of day number z, 0 for Sunday
Weekday(z) == (z + 4) % 7

\* day number of the n-th Sunday of month m of year y
NthSunday(y, m, n) ==
    LET first == DaysFromCivil(y, m, 1)
    IN  first + ((7 - Weekday(first)) % 7) + 7 * (n - 1)

\* minutes from the epoch to the UTC wall time of a stamp
UtcMinutes(t) == DaysFromCivil(t.y, t.m, t.d) * 1440 + t.H * 60 + t.M

\* America/New_York: daylight time from the second Sunday of March, 07:00
\* UTC, to the first Sunday of November, 06:00 UTC
IsDaylight(t) ==
    /\ UtcMinutes(t) >= NthSunday(t.y, 3, 2) * 1440 + 7 * 60
    /\ UtcMinutes(t) < NthSunday(t.y, 11, 1) * 1440 + 6 * 60

\* Timestamp.tz_convert('America/New_York') of a UTC Timestamp
tz_convert(t) ==
    LET local == UtcMinutes(t) - (IF IsDaylight(t) THEN 240 ELSE 300)
        date  == CivilFromDays(local \div 1440)
        rest  == local % 1440
    IN  Stamp("eastern", date[1], date[2], date[3], rest \div 60, rest % 60)

Pad4(n) == Pad2(n \div 100) \o Pad2(n % 100)

\* strftime("%Y-%m-%d %H:%M")
strftime_min(t) ==
    Pad4(t.y) \o "-" \o Pad2(t.m) \o "-" \o Pad2(t.d) \o " " \o Pad2(t.H) \o ":" \o Pad2(t.M)

\* Timestamp.strftime("%Y-%m-%d %H:%M EDT")
strftime_edt(t) == strftime_min(t) \o " EDT"

\* a slice that keeps ten characters
Slice10(s) == SubSeq(s, 1, IF Len(s) < 10 THEN Len(s) ELSE 10)

\* pub[:16]
Slice16(s) == SubSeq(s, 1, IF Len(s) < 16 THEN Len(s) ELSE 16)

\* pub = news.get('published', '')
format_start ==
    /\ tpc = "idle"
    /\ \E p \in PubTexts : pub' = p
    /\ tpc' = "parse"
    /\ UNCHANGED <<parsed, ts, terr, pub_fmt, logVars, newsVars, nameVars, runVars>>

\* pd.to_datetime(pub)
do_to_datetime ==
    /\ tpc = "parse"
    /\ parsed' = parse_datetime(pub)
    /\ IF parse_datetime(pub).kind = "error"
       THEN terr' = "DateParseError" /\ tpc' = "except" /\ UNCHANGED ts
       ELSE ts' = parse_datetime(pub) /\ tpc' = "localize" /\ UNCHANGED terr
    /\ UNCHANGED <<pub, pub_fmt, logVars, newsVars, nameVars, runVars>>

\* .tz_localize('UTC'): a naive Timestamp becomes a UTC one, NaT stays NaT,
\* a zone-aware Timestamp is refused with TypeError
do_tz_localize ==
    /\ tpc = "localize"
    /\ IF ts.kind = "aware"
       THEN terr' = "TypeError" /\ tpc' = "except" /\ UNCHANGED ts
       ELSE /\ ts' = IF ts.kind = "NaT" THEN ts ELSE [ts EXCEPT !.kind = "utc"]
            /\ tpc' = "convert"
            /\ UNCHANGED terr
    /\ UNCHANGED <<pub, parsed, pub_fmt, logVars, newsVars, nameVars, runVars>>

\* pub_dt_edt = pub_dt_utc.tz_convert('America/New_York')
do_tz_convert ==
    /\ tpc = "convert"
    /\ ts' = IF ts.kind = "NaT" THEN ts ELSE tz_convert(ts)
    /\ tpc' = "strftime"
    /\ UNCHANGED <<pub, parsed, terr, pub_fmt, logVars, newsVars, nameVars, runVars>>

\* pub_fmt = pub_dt_edt.strftime("%Y-%m-%d %H:%M EDT"); NaT has no strftime
do_strftime ==
    /\ tpc = "strftime"
    /\ IF ts.kind = "NaT"
       THEN terr' = "ValueError" /\ tpc' = "except" /\ UNCHANGED pub_fmt
       ELSE pub_fmt' = strftime_edt(ts) /\ tpc' = "done" /\ UNCHANGED terr
    /\ UNCHANGED <<pub, parsed, ts, logVars, newsVars, nameVars, runVars>>

\* except Exception: pub_fmt = pub[:16]
do_except ==
    /\ tpc = "except"
    /\ IF terr \in {"DateParseError", "TypeError", "ValueError"}
       THEN pub_fmt' = Slice16(pub) /\ tpc' = "done"
       ELSE tpc' = "raised" /\ UNCHANGED pub_fmt
    /\ UNCHANGED <<pub, parsed, ts, terr, logVars, newsVars, nameVars, runVars>>

NextTime ==
    \/ format_start
    \/ do_to_datetime
    \/ do_tz_localize
    \/ do_tz_convert
    \/ do_strftime
    \/ do_except

(***************************************************************************)
(* One run of the script: tracker choice, sidebar selections, the two logs *)
(* and the head-to-head comparison                                         *)
(***************************************************************************)
MaxLogRows == 2

Trackers == {"Home Run Tracker", "Strikeout Tracker"}

\* names on the rosters
BatterNames == {"Shohei Ohtani", "Aaron Judge", "Kyle Tucker"}

PitcherNames == {"Yoshinobu Yamamoto", "Shota Imanaga", "Shohei Ohtani"}

NoNames == [x \in {} |-> ""]

\* the namespace with `var` bound to `val`
Bind(space, var, val) ==
    [x \in DOMAIN space \cup {var} |-> IF x = var THEN val ELSE space[x]]

\* the variables the Home Run comparison reads for the 'Player' labels and
\* for the colour domain
HrLabelVars == <<"player1_name", "player2_name">>

HrDomainVars == <<"player1_name", "player2_name">>

\* the variables the Strikeout comparison reads for the 'Pitcher' labels:
\* logs[pitcher1_name].assign(Pitcher=player1_name), ...(Pitcher=player2_name)
KLabelVars == <<"player1_name", "player2_name">>

\* domain=[pitcher1_name, pitcher2_name]
KDomainVars == <<"pitcher1_name", "pitcher2_name">>

\* the logs dict after logs[a] = n1 and then logs[b] = n2
LogsOf(a, n1, b, n2) == [x \in {a, b} |-> IF x = b THEN n2 ELSE n1]

\* pd.concat of the two frames, each with its label column assigned
Labelled(n1, l1, n2, l2) == [i \in 1..(n1 + n2) |-> IF i <= n1 THEN l1 ELSE l2]

\* tracker = st.sidebar.radio(...): a run starts with nothing bound
select_tracker ==
    /\ spc = "idle"
    /\ \E t \in Trackers : tracker' = t
    /\ ns' = NoNames
    /\ spc' = "sidebar"
    /\ UNCHANGED <<logs, merged, domain, rerr, logVars, newsVars, nameVars, timeVars>>

\* the selectboxes of the Home Run branch
hr_sidebar ==
    /\ spc = "sidebar"
    /\ tracker = "Home Run Tracker"
    /\ \E a, b \in BatterNames :
          ns' = Bind(Bind(ns, "player1_name", a), "player2_name", b)
    /\ spc' = "selected"
    /\ UNCHANGED <<tracker, logs, merged, domain, rerr, logVars, newsVars, nameVars, timeVars>>

\* the selectboxes of the Strikeout branch
k_sidebar ==
    /\ spc = "sidebar"
    /\ tracker = "Strikeout Tracker"
    /\ \E a, b \in PitcherNames :
          ns' = Bind(Bind(ns, "pitcher1_name", a), "pitcher2_name", b)
    /\ spc' = "selected"
    /\ UNCHANGED <<tracker, logs, merged, domain, rerr, logVars, newsVars, nameVars, timeVars>>

\* the loop that fetches and stores the two logs
FetchLogs(v1, v2) ==
    /\ spc = "selected"
    /\ \E n1, n2 \in 0..MaxLogRows : logs' = LogsOf(ns[v1], n1, ns[v2], n2)
    /\ spc' = "fetched"
    /\ UNCHANGED <<tracker, ns, merged, domain, rerr, logVars, newsVars, nameVars, timeVars>>

hr_fetch_logs == tracker = "Home Run Tracker" /\ FetchLogs("player1_name", "player2_name")

k_fetch_logs == tracker = "Strikeout Tracker" /\ FetchLogs("pitcher1_name", "pitcher2_name")

\* if all(not logs[n].empty for n in [key1, key2]): concat with labels read
\* from labelVars, chart with the domain read from domainVars.  Reading a
\* variable the run has not bound raises NameError.
Comparison(keyVars, labelVars, domainVars) ==
    /\ spc = "fetched"
    /\ IF logs[ns[keyVars[1]]] = 0 \/ logs[ns[keyVars[2]]] = 0
       THEN spc' = "done" /\ UNCHANGED <<merged, domain, rerr>>
       ELSE IF ~({labelVars[1], labelVars[2]} \subseteq DOMAIN ns)
       THEN spc' = "error" /\ rerr' = "NameError" /\ UNCHANGED <<merged, domain>>
       ELSE /\ merged' = Labelled(logs[ns[keyVars[1]]], ns[labelVars[1]],
                                  logs[ns[keyVars[2]]], ns[labelVars[2]])
            /\ domain' = <<ns[domainVars[1]], ns[domainVars[2]]>>
            /\ spc' = "done"
            /\ UNCHANGED rerr
    /\ UNCHANGED <<tracker, ns, logs, logVars, newsVars, nameVars, timeVars>>

hr_comparison ==
    /\ tracker = "Home Run Tracker"
    /\ Comparison(<<"player1_name", "player2_name">>, HrLabelVars, HrDomainVars)

k_comparison ==
    /\ tracker = "Strikeout Tracker"
    /\ Comparison(<<"pitcher1_name", "pitcher2_name">>, KLabelVars, KDomainVars)

NextRun ==
    \/ select_tracker
    \/ hr_sidebar
    \/ k_sidebar
    \/ hr_fetch_logs
    \/ k_fetch_logs
    \/ hr_comparison
    \/ k_comparison

(***************************************************************************)
(* Properties of the event log                                             *)
(***************************************************************************)
Returned == pc \in {"done", "refiltered"}

\* the Statcast columns of a log row
Raw(x) == [game_date |-> x.game_date, events |-> x.events, opponent |-> x.opponent]

Count(s, r) == Cardinality({i \in 1..Len(s) : Raw(s[i]) = r})

\* eligibility of a raw row as the specification states it
Eligible(r, team, tgt) ==
    /\ r.events = tgt
    /\ \/ to_datetime(r.game_date) >= to_datetime(<<2025, 3, 27>>)
       \/ team \in {"LAD", "CHC"}
            /\ r.game_date \in {<<2025, 3, 18>>, <<2025, 3, 19>>}

InRange(d) == start <= d /\ d <= end

\* C1: a returned non-empty log of n rows carries the numbers 1, 2, ..., n in
\* row order, and the rows so numbered are the filtered rows in date order.
C1_SequenceNumbers ==
    (Returned /\ Len(log) > 0) =>
        /\ \A i \in 1..Len(log) : log[i].No = i
        /\ \A i \in 1..Len(log) : Eligible(Raw(log[i]), team_abbr, target)
        /\ \A i, j \in 1..Len(log) : i < j => log[i].Date <= log[j].Date

C1_Witness ==
    /\ pc = "done"
    /\ Len(log) >= 2
    /\ Len(df) > Len(log)
    /\ \E i, j \in 1..Len(df) :
          /\ i < j
          /\ Eligible(df[i], team_abbr, target)
          /\ Eligible(df[j], team_abbr, target)
          /\ to_datetime(df[i].game_date) > to_datetime(df[j].game_date)

ExampleEvents ==
    <<[game_date |-> <<2025, 3, 19>>, events |-> "home_run", opponent |-> <<605141>>],
      [game_date |-> <<2025, 3, 25>>, events |-> "strikeout", opponent |-> <<605141>>],
      [game_date |-> <<2025, 3, 28>>, events |-> "home_run", opponent |-> <<605141>>]>>

\* C2: the returned log holds exactly the input events of the target type
\* whose date is eligible for the team (each as often as the input holds it);
\* the example events give two entries, 03-19 and 03-28, numbered 1 and 2.
C2_RetainsExactlyEligible ==
    Returned =>
        /\ \A r \in RawRows :
              Count(log, r) = IF Eligible(r, team_abbr, target) THEN Count(df, r) ELSE 0
        /\ (df = ExampleEvents /\ team_abbr \in {"LAD", "CHC"} /\ target = "home_run") =>
              /\ Len(log) = 2
              /\ log[1].No = 1 /\ log[1].MM_DD = "03-19"
              /\ log[2].No = 2 /\ log[2].MM_DD = "03-28"

C2_Witness ==
    /\ pc = "done"
    /\ df = ExampleEvents
    /\ team_abbr = "LAD"
    /\ target = "home_run"
    /\ Len(log) = 2

\* C3 as stated: every event of the returned log lies in [start, end], whatever
\* the event sequence handed to the filter.
C3_WithinStartEnd ==
    Returned => \A i \in 1..Len(log) : InRange(to_datetime(log[i].game_date))

\* C3 as amended: every event of the returned log lies in the team's season
\* window, and lies in [start, end] whenever every event handed to the filter
\* does; the filter itself never compares a date with start or end.
C3_WithinWindowAndQuery ==
    Returned =>
        /\ \A i \in 1..Len(log) : Eligible(Raw(log[i]), team_abbr, target)
        /\ (\A k \in 1..Len(df) : InRange(to_datetime(df[k].game_date))) =>
              \A i \in 1..Len(log) : InRange(to_datetime(log[i].game_date))

C3_Witness ==
    /\ pc = "done"
    /\ Len(log) > 0
    /\ Len(df) > Len(log)
    /\ \A k \in 1..Len(df) : InRange(to_datetime(df[k].game_date))
    /\ \E k \in 1..Len(df) : to_datetime(df[k].game_date) < REGULAR_START

\* C9 as stated: filtering a returned log again with the same parameters
\* gives the same rows in the same order with the same numbers.
C9_Idempotent == pc = "refiltered" => log2 = log

\* the rows in date order, rows of one date in the order they have in `rows`
StableByDate(rows) ==
    LET n == Len(rows)
        key(i) == to_datetime(rows[i].game_date)
        before(i, j) == key(i) < key(j) \/ (key(i) = key(j) /\ i < j)
        at(k) == CHOOSE i \in 1..n : Cardinality({j \in 1..n : before(j, i)}) = k - 1
    IN  [k \in 1..n |-> rows[at(k)]]

\* C11 as stated: the dates of the returned log never decrease, and retained
\* events of one date keep the relative order they have in the input.
C11_StableSort ==
    pc = "done" =>
        /\ \A i, j \in 1..Len(log) : i < j => log[i].Date <= log[j].Date
        /\ [i \in 1..Len(log) |-> Raw(log[i])]
              = StableByDate(Selected(df, team_abbr, target))

(***************************************************************************)
(* Properties of the news loop                                             *)
(***************************************************************************)
\* the one-character strings c and d are the same letter, whatever their case
SameLetter(c, d) ==
    \/ c = d
    \/ IndexOf(c, Upper) > 0 /\ IndexOf(c, Upper) = IndexOf(d, Lower)
    \/ IndexOf(c, Lower) > 0 /\ IndexOf(c, Lower) = IndexOf(d, Upper)

\* title and summary joined together contain a blocklisted keyword, compared
\* case-insensitively
Teaser(a) ==
    LET text == a.title \o " " \o a.summary
    IN  \E kw \in {"vote", "voting", "check back", "countdown", "announcement"} :
            \E i \in 1..(Len(text) - Len(kw) + 1) :
                \A j \in 1..Len(kw) :
                    SameLetter(SubSeq(text, i + j - 1, i + j - 1), SubSeq(kw, j, j))

\* the articles of the feed that the blocklist covers
Teasers == {a \in NewsUniverse : Teaser(a)}

Links(f) == {f[i].link : i \in 1..Len(f)}

\* C4: at every point of the loop and after it, the accepted links are
\* pairwise distinct, at most 3 articles are accepted, and seen is the set of
\* the accepted links.
C4_NewsDedupe ==
    /\ \A i, j \in 1..Len(filtered) : i # j => filtered[i].link # filtered[j].link
    /\ Len(filtered) <= 3
    /\ seen = Links(filtered)

C4_Witness ==
    /\ npc = "done"
    /\ Len(filtered) = 3
    /\ \E i, j \in 1..idx :
          /\ i < j
          /\ news_list[i].link = news_list[j].link
          /\ Verdict[news_list[i]]
          /\ Verdict[news_list[j]]

\* C5: is_valid_news returns False for every article whose joined title and
\* summary contain a blocklisted keyword in any case, so for the title
\* "Fan Vote: All-Star Game" with any summary, and an article it rejected is
\* never among the accepted ones.
C5_TeaserRejected ==
    /\ \A k \in 1..Len(checked) :
          /\ checked[k][1] \in Teasers => checked[k][2] = FALSE
          /\ checked[k][1].title = "Fan Vote: All-Star Game" => checked[k][2] = FALSE
          /\ checked[k][2] = FALSE => \A i \in 1..Len(filtered) : filtered[i] # checked[k][1]
    /\ \A i \in 1..Len(filtered) : filtered[i] \notin Teasers

C5_Witness ==
    /\ Len(filtered) > 0
    /\ \E k \in 1..Len(checked) :
          /\ checked[k][1].title = "Fan Vote: All-Star Game"
          /\ checked[k][1].summary = "Recap"
          /\ checked[k][2] = FALSE
    /\ \E k \in 1..Len(checked) :
          /\ checked[k][1].title = "Check"
          /\ checked[k][2] = FALSE

\* positions of the valid articles that are the first valid one of their link
FirstOccurrences(l) ==
    {i \in 1..Len(l) :
        /\ Verdict[l[i]]
        /\ \A j \in 1..(i - 1) : Verdict[l[j]] => l[j].link # l[i].link}

\* the elements of a set of numbers in increasing order
Ascending(S) ==
    [k \in 1..Cardinality(S) |-> CHOOSE x \in S : Cardinality({y \in S : y < x}) = k - 1]

\* C10: when the loop is over, the accepted list is the first min(3, m)
\* elements of the valid first-occurrence articles in input order; the
\* articles were taken in input order, and none after the one that reached
\* the limit was examined.
C10_FirstOccurrencesInOrder ==
    npc = "done" =>
        LET pos == Ascending(FirstOccurrences(news_list))
            m   == Len(pos)
            n   == IF m < 3 THEN m ELSE 3
        IN  /\ filtered = [k \in 1..n |-> news_list[pos[k]]]
            /\ idx = IF m >= 3 THEN pos[3] ELSE Len(news_list)
            /\ Len(checked) = idx
            /\ \A k \in 1..idx : checked[k][1] = news_list[k]

C10_Witness ==
    /\ npc = "done"
    /\ Len(filtered) = 3
    /\ idx < Len(news_list)
    /\ Cardinality(FirstOccurrences(news_list)) > 3

(***************************************************************************)
(* Properties of the name resolution                                       *)
(***************************************************************************)
\* the text form of the ids
IdText(p) ==
    CASE p = 605141 -> "605141"
      [] p = 660271 -> "660271"
      [] p = 592450 -> "592450"
      [] p = 12 -> "12"
      [] p = 0 -> "0"
      [] p = -1 -> "-1"
      [] p = -4077 -> "-4077"

\* C6: no exception leaves pid2name; when the lookup failed in any way the
\* stored name is the id's text form, a non-empty string; a missing id gives
\* the empty string without any lookup.
C6_FailSoft ==
    /\ rpc # "raised"
    /\ (rpc = "done" /\ notna(cell) /\ exc # "none") =>
          name = IdText(cell[1]) /\ Len(name) > 0
    /\ (rpc = "done" /\ ~notna(cell)) => name = "" /\ lookups = 0

C6_Witness ==
    /\ rpc = "done"
    /\ cell = <<-4077>>
    /\ exc = "TypeError"
    /\ name = "-4077"
    /\ lookups = 1

(***************************************************************************)
(* Properties of the timestamp formatting                                  *)
(***************************************************************************)
\* C7: no exception leaves the formatting; for a text that pd.to_datetime
\* cannot parse (it raises, or gives NaT for the empty text) the formatted
\* value is the first 16 characters of the text, the whole text when it is
\* shorter.
C7_FallbackIsPrefix ==
    /\ tpc # "raised"
    /\ (tpc = "done" /\ parsed.kind \in {"error", "NaT"}) =>
          /\ Len(pub_fmt) = (IF Len(pub) < 16 THEN Len(pub) ELSE 16)
          /\ pub_fmt = SubSeq(pub, 1, Len(pub_fmt))

C7_Witness ==
    /\ tpc = "done"
    /\ parsed.kind = "error"
    /\ pub = "sometime last week, probably"
    /\ pub_fmt = "sometime last we"

\* C8 as stated: a text that parses, with or without zone information, is
\* shown as its UTC instant converted to US Eastern time, "YYYY-MM-DD HH:MM"
\* followed by a zone name; the fallback is taken only when parsing fails.
C8_ParsedIsConverted ==
    (tpc = "done" /\ parsed.kind \in {"naive", "aware"}) =>
        /\ terr = "none"
        /\ Len(pub_fmt) = 20
        /\ SubSeq(pub_fmt, 1, 16) = strftime_min(tz_convert(parsed))
        /\ SubSeq(pub_fmt, 17, 20) \in {" EDT", " EST"}

(***************************************************************************)
(* Properties of the head-to-head comparison                               *)
(***************************************************************************)
\* C12 as stated: in a Strikeout Tracker run with two non-empty logs the
\* comparison ends without an exception, the rows of the first log labelled
\* with pitcher1_name and those of the second with pitcher2_name, and the
\* colour domain is <<pitcher1_name, pitcher2_name>>.
C12_StrikeoutComparison ==
    (/\ tracker = "Strikeout Tracker"
     /\ spc \in {"done", "error"}
     /\ logs[ns["pitcher1_name"]] > 0
     /\ logs[ns["pitcher2_name"]] > 0) =>
        /\ spc = "done"
        /\ rerr = "none"
        /\ merged = Labelled(logs[ns["pitcher1_name"]], ns["pitcher1_name"],
                             logs[ns["pitcher2_name"]], ns["pitcher2_name"])
        /\ domain = <<ns["pitcher1_name"], ns["pitcher2_name"]>>

Init ==
    /\ pc = "idle"
    /\ df = <<>>
    /\ start = TOKYO_START
    /\ end = TOKYO_START
    /\ team_abbr = "LAD"
    /\ target = "home_run"
    /\ log = <<>>
    /\ log2 = <<>>
    /\ npc = "idle"
    /\ news_list = <<>>
    /\ idx = 0
    /\ filtered = <<>>
    /\ seen = {}
    /\ checked = <<>>
    /\ rpc = "idle"
    /\ cell = NaN
    /\ table = EmptyTable
    /\ exc = "none"
    /\ lookups = 0
    /\ name = ""
    /\ tpc = "idle"
    /\ pub = ""
    /\ parsed = NoStamp("pending")
    /\ ts = NoStamp("pending")
    /\ terr = "none"
    /\ pub_fmt = ""
    /\ spc = "idle"
    /\ tracker = "Home Run Tracker"
    /\ ns = NoNames
    /\ logs = NoNames
    /\ merged = <<>>
    /\ domain = <<>>
    /\ rerr = "none"

Next ==
    \/ fetch_hr_log
    \/ fetch_k_log
    \/ Refilter

vars == <<logVars, newsVars, nameVars, timeVars, runVars>>

Spec == Init /\ [][Next]_vars

SpecNews == Init /\ [][NextNews]_vars

SpecName == Init /\ [][NextName]_vars

SpecTime == Init /\ [][NextTime]_vars

SpecRun == Init /\ [][NextRun]_vars

====
